---- MODULE Spec2Model ----
(***************************************************************************)
(* Model of src/index.js: an Express server with three routes over one     *)
(* module-level flag, isAuthenticated.                                     *)
(*                                                                         *)
(* Node runs every route handler to completion on one thread, and no       *)
(* handler awaits anything, so each handler is one atomic action.          *)
(*                                                                         *)
(* JavaScript values are tagged records, so that `undefined`, the empty    *)
(* string, a string and a parsed array/object stay distinct values:        *)
(* process.env.X is a string or undefined; a field of req.body (parsed by  *)
(* express.urlencoded({extended: true})) is a string, undefined when the   *)
(* field is not in the body, or an array/object (username[]=x).            *)
(* The handlers are modelled from a req.body that is an object, which is   *)
(* what express.urlencoded hands over for a form-encoded body.             *)
(***************************************************************************)
EXTENDS Naturals, FiniteSets, Sequences

VARIABLES
  env,              \* process.env after configDotenv(): USERNAME, PASSWORD, SECRET_MESSAGE
  isAuthenticated,  \* let isAuthenticated (index.js:9)
  req,              \* the request handled last: client, route, body fields
  res,              \* the response sent to it
  sent,             \* the calls on res its handler made, in order
  \* Observers of the run (no code writes them; the claims are stated over them):
  authedClients,    \* clients whose POST /authenticate was answered with the redirect
  failedAttempts,   \* POST /authenticate calls answered otherwise, counted up to MaxFailed
  firstRedirect,    \* the response of the first redirected POST /authenticate
  probe,            \* one fixed <<username, password>> input watched over the run
  probeRes,         \* the response POST /authenticate gave to probe the first time
  probeFresh,       \* that first time, the flag was unset and no attempt had failed
  \* Requests on their way to the server (used by SpecConc only):
  inflight,         \* requests sent and not yet handled, each with the flag's value when sent
  reqSentFlag       \* the flag's value when the request handled last was sent

vars == <<env, isAuthenticated, req, res, sent, authedClients, failedAttempts,
          firstRedirect, probe, probeRes, probeFresh, inflight, reqSentFlag>>

----------------------------------------------------------------------------
(* Bounds *)

NumClients == 2
MaxFailed == 2

Clients == 1..NumClients

----------------------------------------------------------------------------
(* JavaScript values *)

Undefined == [t |-> "undefined", v |-> ""]
Str(s) == [t |-> "string", v |-> s]
Obj(s) == [t |-> "object", v |-> s]

\* a === b for the values above. A parsed array/object is a fresh reference,
\* so it is === to nothing it is compared with here.
StrictEquals(a, b) ==
  /\ a.t = b.t
  /\ a.t # "object"
  /\ a.v = b.v

\* `${x}`: the template literal's string conversion.
TemplateString(x) ==
  CASE x.t = "undefined" -> "undefined"
    [] x.t = "string" -> x.v
    [] OTHER -> "[object Object]"

----------------------------------------------------------------------------
(* Configuration and inputs *)

EnvUsernames == {Undefined, Str(""), Str("admin")}
EnvPasswords == {Undefined, Str(""), Str("secret123")}
EnvSecrets == {Undefined, Str("The secret")}

BodyUsernames == {Undefined, Str(""), Str("admin"), Str("wrong"), Obj("admin")}
BodyPasswords == {Undefined, Str(""), Str("secret123"), Str("wrong")}

Inputs == BodyUsernames \X BodyPasswords

\* The inputs one of which is watched over a run.
ProbeInputs ==
  { <<Str("admin"), Str("secret123")>>, <<Str("wrong"), Str("secret123")>>,
    <<Str("admin"), Str("")>>, <<Undefined, Undefined>> }

----------------------------------------------------------------------------
(* Responses *)

HelloText == "Hello World!"
InvalidText == "Invalid credentials, please try again."
LoginForm == "<h1>You are not authenticated</h1> <form method=\"POST\" action=\"/authenticate\"> <label for=\"username\">Enter Username:</label> <input type=\"text\" name=\"username\" id=\"username\" required /> <label for=\"password\">Enter Password :</label> <input type=\"text\" name=\"password\" id=\"password\" required /> <button type=\"submit\">Submit</button> </form>"

\* res.send(body): status 200 with the body.
Send(body) == [status |-> 200, body |-> body, location |-> ""]
\* res.redirect(url): status 302 with a Location header.
Redirect(url) == [status |-> 302, body |-> "", location |-> url]

NoRequest == [client |-> 0, route |-> "none", username |-> Undefined, password |-> Undefined]
NoResponse == [status |-> 0, body |-> "", location |-> ""]

Request(c, route, username, password) ==
  [client |-> c, route |-> route, username |-> username, password |-> password]

----------------------------------------------------------------------------
(* The handlers' effect: the flag's value after the handler and the        *)
(* response it sends.                                                      *)

\* Variant: GET / doubles as a logout.
RootResult_Logout ==
  [flag |-> FALSE, res |-> Send(HelloText)]

\* Variant: GET / greets an authenticated caller differently.
RootResult_Greets ==
  [flag |-> isAuthenticated,
   res |-> Send(IF isAuthenticated THEN "Hello admin!" ELSE HelloText)]

\* app.get('/'): res.send('Hello World!').
RootResult ==
  [flag |-> isAuthenticated, res |-> Send(HelloText)]

\* Variant: the test on the flag inverted, if (isAuthenticated).
SecretResult_Inverted ==
  IF isAuthenticated
    THEN [flag |-> isAuthenticated, res |-> Send(LoginForm)]
    ELSE [flag |-> isAuthenticated, res |-> Send(TemplateString(env.SECRET_MESSAGE))]

\* Variant: serving the login form sets the flag.
SecretResult_Unlock ==
  IF ~isAuthenticated
    THEN [flag |-> TRUE, res |-> Send(LoginForm)]
    ELSE [flag |-> isAuthenticated, res |-> Send(TemplateString(env.SECRET_MESSAGE))]

\* app.get('/secret'): the login form while the flag is unset, else
\* `${process.env.SECRET_MESSAGE}`.
SecretResult ==
  IF ~isAuthenticated
    THEN [flag |-> isAuthenticated, res |-> Send(LoginForm)]
    ELSE [flag |-> isAuthenticated, res |-> Send(TemplateString(env.SECRET_MESSAGE))]

\* Variant: isAuthenticated = (the comparison), so a mismatch clears the flag.
AuthenticateResult_Reset(username, password) ==
  IF StrictEquals(username, env.USERNAME) /\ StrictEquals(password, env.PASSWORD)
    THEN [flag |-> TRUE, res |-> Redirect("/secret")]
    ELSE [flag |-> FALSE, res |-> Send(InvalidText)]

\* Variant: || in place of &&.
AuthenticateResult_Either(username, password) ==
  IF StrictEquals(username, env.USERNAME) \/ StrictEquals(password, env.PASSWORD)
    THEN [flag |-> TRUE, res |-> Redirect("/secret")]
    ELSE [flag |-> isAuthenticated, res |-> Send(InvalidText)]

\* Variant: a mismatch answered with res.status(401).send(...).
AuthenticateResult_Status(username, password) ==
  IF StrictEquals(username, env.USERNAME) /\ StrictEquals(password, env.PASSWORD)
    THEN [flag |-> TRUE, res |-> Redirect("/secret")]
    ELSE [flag |-> isAuthenticated,
          res |-> [status |-> 401, body |-> InvalidText, location |-> ""]]

\* Variant: re-authenticating while the flag is set is answered with an error.
AuthenticateResult_Once(username, password) ==
  IF StrictEquals(username, env.USERNAME) /\ StrictEquals(password, env.PASSWORD)
    THEN IF isAuthenticated
           THEN [flag |-> TRUE, res |-> Send("Already authenticated.")]
           ELSE [flag |-> TRUE, res |-> Redirect("/secret")]
    ELSE [flag |-> isAuthenticated, res |-> Send(InvalidText)]

\* Variant: the values compared as `${username}` === `${process.env.USERNAME}`,
\* the way line 36 formats them for the log.
AuthenticateResult_Templated(username, password) ==
  IF /\ TemplateString(username) = TemplateString(env.USERNAME)
     /\ TemplateString(password) = TemplateString(env.PASSWORD)
    THEN [flag |-> TRUE, res |-> Redirect("/secret")]
    ELSE [flag |-> isAuthenticated, res |-> Send(InvalidText)]

\* Variant: a lockout once two attempts have failed.
AuthenticateResult_Lockout(username, password) ==
  IF /\ failedAttempts < 2
     /\ StrictEquals(username, env.USERNAME)
     /\ StrictEquals(password, env.PASSWORD)
    THEN [flag |-> TRUE, res |-> Redirect("/secret")]
    ELSE [flag |-> isAuthenticated, res |-> Send(InvalidText)]

\* app.post('/authenticate'): const { username, password } = req.body, then
\* the === comparison against process.env.USERNAME and process.env.PASSWORD.
AuthenticateResult(username, password) ==
  IF StrictEquals(username, env.USERNAME) /\ StrictEquals(password, env.PASSWORD)
    THEN [flag |-> TRUE, res |-> Redirect("/secret")]
    ELSE [flag |-> isAuthenticated, res |-> Send(InvalidText)]

----------------------------------------------------------------------------
(* The calls each handler makes on res (res.send, res.redirect), in order. *)

\* app.get('/'): one res.send.
RootSent ==
  <<Send(HelloText)>>

\* app.get('/secret'): one res.send in each branch of the if/else.
SecretSent ==
  IF ~isAuthenticated
    THEN <<Send(LoginForm)>>
    ELSE <<Send(TemplateString(env.SECRET_MESSAGE))>>

\* Variant: the else dropped, so that a match falls through to the res.send.
AuthenticateSent_NoElse(username, password) ==
  IF StrictEquals(username, env.USERNAME) /\ StrictEquals(password, env.PASSWORD)
    THEN <<Redirect("/secret"), Send(InvalidText)>>
    ELSE <<Send(InvalidText)>>

\* app.post('/authenticate'): res.redirect in the if branch, res.send in the
\* else branch.
AuthenticateSent(username, password) ==
  IF StrictEquals(username, env.USERNAME) /\ StrictEquals(password, env.PASSWORD)
    THEN <<Redirect("/secret")>>
    ELSE <<Send(InvalidText)>>

----------------------------------------------------------------------------
(* State machine *)

\* configDotenv() has filled process.env; let isAuthenticated = false.
Init ==
  /\ env \in [USERNAME : EnvUsernames, PASSWORD : EnvPasswords, SECRET_MESSAGE : EnvSecrets]
  /\ isAuthenticated = FALSE
  /\ req = NoRequest
  /\ res = NoResponse
  /\ sent = <<>>
  /\ authedClients = {}
  /\ failedAttempts = 0
  /\ firstRedirect = NoResponse
  /\ probe \in ProbeInputs
  /\ probeRes = NoResponse
  /\ probeFresh = FALSE
  /\ inflight = {}
  /\ reqSentFlag = FALSE

GetRoot(c) ==
  LET r == RootResult IN
  /\ isAuthenticated' = r.flag
  /\ res' = r.res
  /\ sent' = RootSent
  /\ req' = Request(c, "/", Undefined, Undefined)
  /\ UNCHANGED <<env, authedClients, failedAttempts, firstRedirect, probe, probeRes, probeFresh>>

GetSecret(c) ==
  LET r == SecretResult IN
  /\ isAuthenticated' = r.flag
  /\ res' = r.res
  /\ sent' = SecretSent
  /\ req' = Request(c, "/secret", Undefined, Undefined)
  /\ UNCHANGED <<env, authedClients, failedAttempts, firstRedirect, probe, probeRes, probeFresh>>

PostAuthenticate(c, username, password) ==
  LET r == AuthenticateResult(username, password)
      redirected == r.res.status = 302
      firstProbe == <<username, password>> = probe /\ probeRes = NoResponse
  IN
  /\ isAuthenticated' = r.flag
  /\ res' = r.res
  /\ sent' = AuthenticateSent(username, password)
  /\ req' = Request(c, "/authenticate", username, password)
  /\ authedClients' = IF redirected THEN authedClients \cup {c} ELSE authedClients
  /\ failedAttempts' = IF redirected \/ failedAttempts >= MaxFailed
                         THEN failedAttempts ELSE failedAttempts + 1
  /\ firstRedirect' = IF redirected /\ firstRedirect = NoResponse
                        THEN r.res ELSE firstRedirect
  /\ probeRes' = IF firstProbe THEN r.res ELSE probeRes
  /\ probeFresh' = IF firstProbe THEN ~isAuthenticated /\ failedAttempts = 0
                     ELSE probeFresh
  /\ UNCHANGED <<env, probe>>

\* Requests handled one after the other, each as soon as it is sent.
ServeRoot(c) ==
  GetRoot(c) /\ UNCHANGED <<inflight, reqSentFlag>>

ServeSecret(c) ==
  GetSecret(c) /\ UNCHANGED <<inflight, reqSentFlag>>

ServeAuthenticate(c, username, password) ==
  PostAuthenticate(c, username, password) /\ UNCHANGED <<inflight, reqSentFlag>>

Next ==
  \E c \in Clients :
    \/ ServeRoot(c)
    \/ ServeSecret(c)
    \/ \E input \in Inputs : ServeAuthenticate(c, input[1], input[2])

Spec == Init /\ [][Next]_vars

----------------------------------------------------------------------------
(* Concurrent clients: requests are in flight together, and the event loop  *)
(* runs the handler of one of them to completion at a time, in any order.  *)

\* The POST bodies the concurrent clients send.
ConcInputs ==
  { <<Str("admin"), Str("secret123")>>, <<Str("wrong"), Str("secret123")>>,
    <<Undefined, Undefined>> }

ConcRequests(c) ==
  { Request(c, "/", Undefined, Undefined), Request(c, "/secret", Undefined, Undefined) }
    \cup { Request(c, "/authenticate", input[1], input[2]) : input \in ConcInputs }

\* The configurations of the concurrent runs; the watched input is one that
\* no concurrent client sends.
InitConc ==
  /\ Init
  /\ env.SECRET_MESSAGE = Str("The secret")
  /\ (env.USERNAME = Undefined) = (env.PASSWORD = Undefined)
  /\ probe = <<Str("admin"), Str("")>>

\* A client with no request under way sends one.
SendRequest(c) ==
  /\ \A m \in inflight : m.req.client # c
  /\ \E r \in ConcRequests(c) :
       inflight' = inflight \cup {[req |-> r, sentFlag |-> isAuthenticated]}
  /\ UNCHANGED <<env, isAuthenticated, req, res, sent, authedClients, failedAttempts,
                 firstRedirect, probe, probeRes, probeFresh, reqSentFlag>>

\* The router runs the handler of one request in flight, to completion.
DispatchRoot(m) ==
  /\ m.req.route = "/"
  /\ inflight' = inflight \ {m}
  /\ reqSentFlag' = m.sentFlag
  /\ GetRoot(m.req.client)

\* Variant: GET /secret answered from the flag's value at the time the
\* request was sent, not at the time its handler runs.
DispatchSecret_Stale(m) ==
  /\ m.req.route = "/secret"
  /\ inflight' = inflight \ {m}
  /\ reqSentFlag' = m.sentFlag
  /\ res' = Send(IF m.sentFlag THEN TemplateString(env.SECRET_MESSAGE) ELSE LoginForm)
  /\ sent' = <<res'>>
  /\ req' = m.req
  /\ UNCHANGED <<env, isAuthenticated, authedClients, failedAttempts,
                 firstRedirect, probe, probeRes, probeFresh>>

DispatchSecret(m) ==
  /\ m.req.route = "/secret"
  /\ inflight' = inflight \ {m}
  /\ reqSentFlag' = m.sentFlag
  /\ GetSecret(m.req.client)

DispatchAuthenticate(m) ==
  /\ m.req.route = "/authenticate"
  /\ inflight' = inflight \ {m}
  /\ reqSentFlag' = m.sentFlag
  /\ PostAuthenticate(m.req.client, m.req.username, m.req.password)

NextConc ==
  \/ \E c \in Clients : SendRequest(c)
  \/ \E m \in inflight : DispatchRoot(m)
  \/ \E m \in inflight : DispatchSecret(m)
  \/ \E m \in inflight : DispatchAuthenticate(m)

SpecConc == InitConc /\ [][NextConc]_vars

----------------------------------------------------------------------------
(* Runs in which every POST /authenticate carries both fields as strings,  *)
(* among them the string "undefined".                                      *)

StringUsernames == {Str(""), Str("admin"), Str("wrong"), Str("undefined")}
StringPasswords == {Str(""), Str("secret123"), Str("undefined")}

NextStrings ==
  \E c \in Clients :
    \/ ServeRoot(c)
    \/ ServeSecret(c)
    \/ \E username \in StringUsernames, password \in StringPasswords :
         ServeAuthenticate(c, username, password)

SpecStrings == Init /\ [][NextStrings]_vars

----------------------------------------------------------------------------
(* Vocabulary of the properties *)

\* Exact string equality of two present strings.
StringEquals(a, b) ==
  /\ a.t = "string"
  /\ b.t = "string"
  /\ a.v = b.v

\* The request carries both fields.
FieldsPresent(r) ==
  /\ r.username.t # "undefined"
  /\ r.password.t # "undefined"

\* The request's username and password are the configured ones.
CorrectCredentials(r) ==
  /\ StringEquals(r.username, env.USERNAME)
  /\ StringEquals(r.password, env.PASSWORD)

SecretText == TemplateString(env.SECRET_MESSAGE)

----------------------------------------------------------------------------
(* Properties *)

\* C1: as long as no POST /authenticate has succeeded (none was answered
\* with the redirect), a GET /secret from any client is answered with the
\* login form and not with the secret text.
C1_SecretLockedBeforeAuth ==
  (authedClients = {} /\ req.route = "/secret")
    => (res = Send(LoginForm) /\ res.body # SecretText)

C1_Witness ==
  /\ authedClients = {}
  /\ failedAttempts > 0
  /\ req.route = "/secret"
  /\ req.client = NumClients
  /\ res.body = LoginForm

\* C2: once a POST /authenticate has succeeded, every GET /secret handled
\* later, from any client (also one that never authenticated) and whatever
\* was requested in between, is answered with the secret text.
C2_SecretOpenAfterAuth ==
  (authedClients # {} /\ req.route = "/secret") => res = Send(SecretText)

\* Client 1 authenticated; the one attempt that failed was the first call
\* with probe and came with the flag already set, so after the success; then
\* another client is served the secret text.
C2_Witness ==
  /\ authedClients = {1}
  /\ failedAttempts = 1
  /\ probeRes = Send(InvalidText)
  /\ ~probeFresh
  /\ req.route = "/secret"
  /\ req.client # 1
  /\ res = Send(SecretText)

\* C3: the flag never goes from true to false, and it goes from false to
\* true only in a POST /authenticate step whose username and password are
\* === the configured ones.
C3_FlagMonotonic ==
  [][ /\ (isAuthenticated => isAuthenticated')
      /\ (~isAuthenticated /\ isAuthenticated')
           => /\ req'.route = "/authenticate"
              /\ StrictEquals(req'.username, env.USERNAME)
              /\ StrictEquals(req'.password, env.PASSWORD) ]_vars

C3_Witness ==
  /\ isAuthenticated
  /\ failedAttempts > 0
  /\ req.route = "/"
  /\ authedClients # {}

\* C4: a POST /authenticate carrying a username and a password succeeds
\* (the flag is true afterwards and the response is the redirect to
\* /secret) exactly when both are string-equal to the configured USERNAME
\* and PASSWORD; otherwise the response is not the redirect.
C4_SucceedsIffEqual ==
  (req.route = "/authenticate" /\ FieldsPresent(req))
    => /\ CorrectCredentials(req) => (isAuthenticated /\ res = Redirect("/secret"))
       /\ ~CorrectCredentials(req) => res.status # 302

C4_Witness ==
  /\ req.route = "/authenticate"
  /\ CorrectCredentials(req)
  /\ req.username = Str("admin")
  /\ isAuthenticated
  /\ res = Redirect("/secret")

\* C5: a POST /authenticate carrying a username or a password that differs
\* from the configured one leaves the flag as it was and is answered with
\* status 200 and the text "Invalid credentials, please try again.".
C5_MismatchKeepsFlag ==
  [][ (req'.route = "/authenticate" /\ FieldsPresent(req') /\ ~CorrectCredentials(req'))
        => /\ isAuthenticated' = isAuthenticated
           /\ res' = [status |-> 200, body |-> InvalidText, location |-> ""] ]_vars

C5_Witness ==
  /\ req.route = "/authenticate"
  /\ req.username = Str("wrong")
  /\ req.password = env.PASSWORD
  /\ isAuthenticated
  /\ res.body = InvalidText

\* The field is missing from the body, or is the empty string.
MissingOrEmpty(x) ==
  \/ x.t = "undefined"
  \/ x = Str("")

\* C6: a POST /authenticate whose username or password is missing or empty
\* never changes the flag from false to true, whatever the configuration.
C6_MalformedNeverAuthenticates ==
  [][ (req'.route = "/authenticate"
        /\ (MissingOrEmpty(req'.username) \/ MissingOrEmpty(req'.password)))
        => ~(~isAuthenticated /\ isAuthenticated') ]_vars

\* C7: a POST /authenticate with the correct credentials handled while the
\* flag is already true leaves it true and is answered with the redirect to
\* /secret, the same response as the first successful call got.
C7_ReauthenticateIdempotent ==
  [][ (isAuthenticated /\ req'.route = "/authenticate" /\ CorrectCredentials(req'))
        => /\ isAuthenticated'
           /\ res' = Redirect("/secret")
           /\ res' = firstRedirect ]_vars

\* Two clients were redirected: the later call found the flag set.
C7_Witness ==
  /\ Cardinality(authedClients) = 2
  /\ req.route = "/authenticate"
  /\ CorrectCredentials(req)
  /\ isAuthenticated
  /\ res = firstRedirect
  /\ res = Redirect("/secret")

\* C8: GET / is answered with exactly "Hello World!" in every state.
C8_RootGreeting ==
  req.route = "/" => res = [status |-> 200, body |-> "Hello World!", location |-> ""]

C8_Witness ==
  /\ req.route = "/"
  /\ isAuthenticated
  /\ failedAttempts = MaxFailed
  /\ res.body = "Hello World!"

\* C9: GET / and GET /secret leave the flag as it was; a step that changes
\* the flag is a POST /authenticate.
C9_GetsLeaveFlag ==
  [][ /\ req'.route \in {"/", "/secret"} => isAuthenticated' = isAuthenticated
      /\ isAuthenticated' # isAuthenticated => req'.route = "/authenticate" ]_vars

C9_Witness ==
  /\ req.route = "/secret"
  /\ req.client \notin authedClients
  /\ isAuthenticated
  /\ failedAttempts = 0
  /\ res = Send(SecretText)

\* C10: the response of POST /authenticate to given inputs does not depend
\* on the history: every call with the watched input gets the response the
\* first such call got, and a call with the correct credentials succeeds
\* after any number of failed attempts.
C10_OutcomeIndependentOfHistory ==
  req.route = "/authenticate"
    => /\ <<req.username, req.password>> = probe => res = probeRes
       /\ CorrectCredentials(req) => (res = Redirect("/secret") /\ isAuthenticated)

\* The watched input was first sent with the flag unset and no failure so
\* far, and is sent again with the flag set and MaxFailed failures behind.
C10_Witness ==
  /\ probeFresh
  /\ probeRes = Redirect("/secret")
  /\ failedAttempts = MaxFailed
  /\ req.route = "/authenticate"
  /\ <<req.username, req.password>> = probe
  /\ res = probeRes
  /\ isAuthenticated

\* C11: with requests of several clients in flight together and handled in
\* any order, every response is the one the serial run of the requests in
\* the order of their handling gives: GET /secret is answered with the
\* secret text if a successful POST /authenticate was handled before it and
\* with the login form if none was, whatever the flag was when it was sent.
C11_ResponsesFollowHandlingOrder ==
  /\ req.route = "/secret"
       => res = IF authedClients # {} THEN Send(SecretText) ELSE Send(LoginForm)
  /\ req.route = "/authenticate"
       => res = IF /\ StrictEquals(req.username, env.USERNAME)
                    /\ StrictEquals(req.password, env.PASSWORD)
                  THEN Redirect("/secret") ELSE Send(InvalidText)
  /\ req.route = "/" => res = Send(HelloText)

\* A GET /secret sent while the flag was unset was overtaken by a successful
\* POST /authenticate of another client and is answered with the secret
\* text, with a further request still in flight.
C11_Witness ==
  /\ req.route = "/secret"
  /\ ~reqSentFlag
  /\ req.client \notin authedClients
  /\ res = Send(SecretText)
  /\ inflight # {}

\* C12: with USERNAME or PASSWORD absent from the configuration the server
\* starts and answers all three routes, every POST /authenticate whose
\* username and password are present strings is answered with the
\* invalid-credentials text, and after any sequence of such calls the flag
\* is false (so GET /secret still shows the login form).
C12_AbsentConfigNeverAuthenticates ==
  (env.USERNAME = Undefined \/ env.PASSWORD = Undefined)
    => /\ ~isAuthenticated
       /\ req.route = "/authenticate" => res = Send(InvalidText)
       /\ req.route = "/secret" => res = Send(LoginForm)
       /\ req.route = "/" => res = Send(HelloText)

\* USERNAME is absent, PASSWORD is set: the string "undefined" with the
\* right password is turned down, after MaxFailed failed attempts.
C12_Witness ==
  /\ env.USERNAME = Undefined
  /\ env.PASSWORD = Str("secret123")
  /\ req.route = "/authenticate"
  /\ req.username = Str("undefined")
  /\ req.password = Str("secret123")
  /\ failedAttempts = MaxFailed
  /\ res = Send(InvalidText)
  /\ ~isAuthenticated

====
